---- MODULE Spec2Model ----
(***************************************************************************)
(* Account status / login-attempt state machine of the Flask               *)
(* authentication system (src/app.py, src/models.py, src/utils.py,         *)
(* src/database.py).                                                       *)
(*                                                                         *)
(* Strings that the code inspects character by character (DNI, password)   *)
(* are sequences of one-character strings.  A point in time is a number of *)
(* seconds; a stored timestamp is the pair <<calendar day, second of day>> *)
(* that isoformat()/CURRENT_TIMESTAMP write and fromisoformat()/DATE()     *)
(* read back.  SQLite's CURRENT_TIMESTAMP and 'now' are UTC, while         *)
(* datetime.now() is the server's local time: utc_offset is the difference *)
(* of the two, fixed by where the server is deployed.                      *)
(***************************************************************************)
EXTENDS Integers, Sequences, FiniteSets, TLC

VARIABLES
    users,      \* table users, rows in id order
    activities, \* table activities, rows in id order
    session,    \* the Flask session of the client
    now,        \* the clock, in seconds of UTC
    utc_offset, \* local time minus UTC at the server, in seconds
    response,   \* what the last request was and how it was answered
    threads     \* the requests being served, each at a statement of its handler

vars == <<users, activities, session, now, utc_offset, response, threads>>

-----------------------------------------------------------------------------
(* Program constants *)

SecondsPerDay == 86400
BlockWindow == 60
BlockAttempts_six == 5 + 1
BlockAttempts == 5
PauseDays == 180
FlagDays == 5
MinDniLen == 6
MaxDniLen == 8
MinPasswordLen_seven == 8 - 1
MinPasswordLen == 8
MaxPasswordLen == 12

NULL == <<>>

ADMIN == <<"a", "d", "m", "i", "n">>
ADMIN_PASSWORD == <<"P", "a", "s", "s", "w", "o", "r", "d", "1", "2", "3", "!">>
BLOCKED_STATUSES_no_suspended == {"bloqueado", "pausado", "alertado"}
BLOCKED_STATUSES == {"bloqueado", "pausado", "alertado", "suspendido"}

Statuses == {"inmaculado", "activo", "pausado", "alertado", "bloqueado", "suspendido"}

-----------------------------------------------------------------------------
(* Characters *)

DigitChars == {"0", "1", "2", "3", "4", "5", "6", "7", "8", "9"}
UpperChars == {"A", "B", "C", "D", "E", "F", "G", "H", "I", "J", "K", "L", "M",
               "N", "O", "P", "Q", "R", "S", "T", "U", "V", "W", "X", "Y", "Z"}
SpecialChars == {"!", "@", "#", "$", "%", "^", "&", "*", "(", ")", ",", ".",
                 "?", "\"", ":", "{", "}", "|", "<", ">"}
SpaceChars == {" "}

\* str.isdigit(): non-empty and every character a digit
isdigit(s) == Len(s) > 0 /\ \A i \in 1..Len(s) : s[i] \in DigitChars

\* re.search(r'[...]', s): some character of s is in the class
search(class, s) == \E i \in 1..Len(s) : s[i] \in class

RECURSIVE lstrip(_)
lstrip(s) == IF s # <<>> /\ Head(s) \in SpaceChars THEN lstrip(Tail(s)) ELSE s

RECURSIVE rstrip(_)
rstrip(s) ==
    IF s # <<>> /\ s[Len(s)] \in SpaceChars THEN rstrip(SubSeq(s, 1, Len(s) - 1)) ELSE s

strip(s) == rstrip(lstrip(s))

-----------------------------------------------------------------------------
(* Time *)

\* datetime.now(): the local time at clock t
datetime_now(t) == t + utc_offset

\* datetime.isoformat(), and the text of SQLite's CURRENT_TIMESTAMP
isoformat(t) == <<t \div SecondsPerDay, t % SecondsPerDay>>

\* datetime.fromisoformat(s)
fromisoformat(s) == s[1] * SecondsPerDay + s[2]

\* SQLite DATE(timestamp), and datetime.date()
DATE(s) == s[1]

-----------------------------------------------------------------------------
(* werkzeug.security: a salted one-way hash.  The digest is an injective   *)
(* function of salt and password (no collisions).                          *)

Digest(salt, password) == <<salt, password>>

generate_password_hash(password, salt) ==
    [method |-> "scrypt", salt |-> salt, digest |-> Digest(salt, password)]

check_password_hash(pwhash, password) ==
    pwhash.digest = Digest(pwhash.salt, password)

-----------------------------------------------------------------------------
(* models.User *)

\* User.find_by_dni: the row with that dni, or None
find_by_dni(tbl, dni) ==
    IF \E i \in 1..Len(tbl) : tbl[i].dni = dni
    THEN tbl[CHOOSE i \in 1..Len(tbl) : tbl[i].dni = dni]
    ELSE NULL

\* User(dni=..., password_hash=..., status=...): the constructor's defaults.
\* An id that is not set is 0: save() only tests the id for truth.
User(dni, password_hash, status) ==
    [id |-> 0, dni |-> dni, password_hash |-> password_hash, status |-> status,
     created_at |-> NULL, last_login |-> NULL, login_attempts |-> 0,
     last_attempt |-> NULL]

\* save's UPDATE users SET ... WHERE dni = ?
UPDATE_users(tbl, user) ==
    [i \in 1..Len(tbl) |->
        IF tbl[i].dni = user.dni
        THEN [tbl[i] EXCEPT !.password_hash = user.password_hash,
                            !.status = user.status,
                            !.last_login = user.last_login,
                            !.login_attempts = user.login_attempts,
                            !.last_attempt = user.last_attempt]
        ELSE tbl[i]]

\* save's INSERT INTO users (dni, password_hash, status), the other columns
\* at the table's defaults
INSERT_users(tbl, user, t) ==
    Append(tbl, [id |-> Len(tbl) + 1, dni |-> user.dni,
                 password_hash |-> user.password_hash, status |-> user.status,
                 created_at |-> isoformat(t), last_login |-> NULL,
                 login_attempts |-> 0, last_attempt |-> NULL])

\* the column dni without its UNIQUE constraint
IntegrityError_no_unique(tbl, dni) == FALSE

\* users.dni is UNIQUE: an INSERT of a dni the table holds raises
\* sqlite3.IntegrityError
IntegrityError(tbl, dni) == \E i \in 1..Len(tbl) : tbl[i].dni = dni

\* save's test of the row it looked up: existing_user and existing_user.id
row_exists(existing_user) == existing_user # NULL /\ existing_user.id # 0

\* User.save, in a request served alone: UPDATE the row of that dni, or
\* INSERT a new row
save(tbl, user, t) ==
    IF row_exists(find_by_dni(tbl, user.dni))
    THEN UPDATE_users(tbl, user)
    ELSE INSERT_users(tbl, user, t)

\* User.validate_dni
validate_dni(dni) ==
    IF dni = <<>> THEN [ok |-> FALSE, msg |-> "dni_empty"]
    ELSE IF ~isdigit(dni) THEN [ok |-> FALSE, msg |-> "dni_not_numeric"]
    ELSE IF Len(dni) < MinDniLen \/ Len(dni) > MaxDniLen
         THEN [ok |-> FALSE, msg |-> "dni_length"]
    ELSE [ok |-> TRUE, msg |-> "dni_valid"]

\* User.validate_password
validate_password(password) ==
    IF Len(password) < MinPasswordLen \/ Len(password) > MaxPasswordLen
    THEN [ok |-> FALSE, msg |-> "password_length"]
    ELSE IF ~search(UpperChars, password)
         THEN [ok |-> FALSE, msg |-> "password_no_uppercase"]
    ELSE IF ~search(SpecialChars, password)
         THEN [ok |-> FALSE, msg |-> "password_no_special"]
    ELSE [ok |-> TRUE, msg |-> "password_valid"]

\* User.check_password
check_password(user, password) ==
    IF user.password_hash = NULL THEN FALSE
    ELSE check_password_hash(user.password_hash, password)

\* log_activity that keeps one row for each account, the latest
log_activity_overwriting(tbl, dni, action_type, result, details, t) ==
    IF tbl # <<>> /\ tbl[Len(tbl)].user_dni = dni
    THEN [tbl EXCEPT ![Len(tbl)] =
            [id |-> Len(tbl), timestamp |-> isoformat(t), user_dni |-> dni,
             action_type |-> action_type, result |-> result, details |-> details]]
    ELSE Append(tbl, [id |-> Len(tbl) + 1, timestamp |-> isoformat(t), user_dni |-> dni,
                      action_type |-> action_type, result |-> result, details |-> details])

\* User.log_activity: INSERT INTO activities
log_activity(tbl, dni, action_type, result, details, t) ==
    Append(tbl, [id |-> Len(tbl) + 1, timestamp |-> isoformat(t), user_dni |-> dni,
                 action_type |-> action_type, result |-> result, details |-> details])

\* update_login_attempt whose success branch does not reset the counter
login_attempt_fields_no_reset(user, success, t) ==
    IF success
    THEN [user EXCEPT !.last_login = isoformat(datetime_now(t)),
                      !.status = "activo"]
    ELSE LET counted == [user EXCEPT !.login_attempts = user.login_attempts + 1,
                                     !.last_attempt = isoformat(datetime_now(t))]
             time_diff == datetime_now(t) - fromisoformat(counted.last_attempt)
         IN  IF /\ counted.login_attempts >= BlockAttempts
                /\ counted.last_attempt # NULL
                /\ time_diff < BlockWindow
             THEN [counted EXCEPT !.status = "bloqueado"]
             ELSE counted

\* update_login_attempt whose success branch does not set the status
login_attempt_fields_no_status(user, success, t) ==
    IF success
    THEN [user EXCEPT !.login_attempts = 0,
                      !.last_login = isoformat(datetime_now(t))]
    ELSE LET counted == [user EXCEPT !.login_attempts = user.login_attempts + 1,
                                     !.last_attempt = isoformat(datetime_now(t))]
             time_diff == datetime_now(t) - fromisoformat(counted.last_attempt)
         IN  IF /\ counted.login_attempts >= BlockAttempts
                /\ counted.last_attempt # NULL
                /\ time_diff < BlockWindow
             THEN [counted EXCEPT !.status = "bloqueado"]
             ELSE counted

\* The in-memory part of User.update_login_attempt(success): the fields of
\* the object before save().  The second datetime.now() reads the clock
\* within the same request as the first; last_attempt is never None here.
login_attempt_fields(user, success, t) ==
    IF success
    THEN [user EXCEPT !.login_attempts = 0,
                      !.last_login = isoformat(datetime_now(t)),
                      !.status = "activo"]
    ELSE LET counted == [user EXCEPT !.login_attempts = user.login_attempts + 1,
                                     !.last_attempt = isoformat(datetime_now(t))]
             time_diff == datetime_now(t) - fromisoformat(counted.last_attempt)
         IN  IF /\ counted.login_attempts >= BlockAttempts
                /\ counted.last_attempt # NULL
                /\ time_diff < BlockWindow
             THEN [counted EXCEPT !.status = "bloqueado"]
             ELSE counted

-----------------------------------------------------------------------------
(* utils *)

\* validate_input: the required fields that are empty after strip()
validate_input(data, required_fields) ==
    {f \in required_fields : strip(data[f]) = <<>>}

Max(S) == CHOOSE x \in S : \A y \in S : y <= x

\* ORDER BY attempt_date DESC LIMIT n over a set of dates
RECURSIVE order_desc_limit(_, _)
order_desc_limit(S, n) ==
    IF S = {} \/ n = 0 THEN <<>>
    ELSE <<Max(S)>> \o order_desc_limit(S \ {Max(S)}, n - 1)

\* check_consecutive_failed_logins that only counts the dates
check_consecutive_failed_logins_count_only(tbl, dni, days, t) ==
    LET sql_today == DATE(isoformat(t))
        dates == {DATE(tbl[i].timestamp) : i \in
                    {j \in 1..Len(tbl) :
                        /\ tbl[j].user_dni = dni
                        /\ tbl[j].action_type = "acceso"
                        /\ tbl[j].result = "fallido"
                        /\ DATE(tbl[j].timestamp) >= sql_today - days}}
        recent_attempts == order_desc_limit(dates, days)
    IN  Len(recent_attempts) >= days

\* check_consecutive_failed_logins(dni, days)
check_consecutive_failed_logins(tbl, dni, days, t) ==
    LET sql_today == DATE(isoformat(t))
        dates == {DATE(tbl[i].timestamp) : i \in
                    {j \in 1..Len(tbl) :
                        /\ tbl[j].user_dni = dni
                        /\ tbl[j].action_type = "acceso"
                        /\ tbl[j].result = "fallido"
                        /\ DATE(tbl[j].timestamp) >= sql_today - days}}
        recent_attempts == order_desc_limit(dates, days)
        expected_dates == [i \in 1..days |->
                              DATE(isoformat(datetime_now(t) - (i - 1) * SecondsPerDay))]
    IN  IF Len(recent_attempts) >= days
        THEN recent_attempts = expected_dates
        ELSE FALSE

\* the rules with the pause threshold compared by >=
rule_status_from_threshold(tbl, user, t) ==
    IF user.last_login # NULL
    THEN IF datetime_now(t) - fromisoformat(user.last_login) >= PauseDays * SecondsPerDay
         THEN "pausado"
         ELSE user.status
    ELSE IF check_consecutive_failed_logins(tbl, user.dni, FlagDays, t)
         THEN "alertado"
         ELSE user.status

\* the rules with the stale account suspended rather than paused
rule_status_suspending(tbl, user, t) ==
    IF user.last_login # NULL
    THEN IF datetime_now(t) - fromisoformat(user.last_login) > PauseDays * SecondsPerDay
         THEN "suspendido"
         ELSE user.status
    ELSE IF check_consecutive_failed_logins(tbl, user.dni, FlagDays, t)
         THEN "alertado"
         ELSE user.status

\* the rules with the rule on consecutive days evaluated first, for every
\* account
rule_status_flag_first(tbl, user, t) ==
    IF check_consecutive_failed_logins(tbl, user.dni, FlagDays, t)
    THEN "alertado"
    ELSE IF user.last_login # NULL
            /\ datetime_now(t) - fromisoformat(user.last_login) > PauseDays * SecondsPerDay
         THEN "pausado"
         ELSE user.status

\* the rules with the flag withdrawn once the consecutive days no longer hold
rule_status_clearing_flag(tbl, user, t) ==
    IF user.last_login # NULL
    THEN IF datetime_now(t) - fromisoformat(user.last_login) > PauseDays * SecondsPerDay
         THEN "pausado"
         ELSE user.status
    ELSE IF check_consecutive_failed_logins(tbl, user.dni, FlagDays, t)
         THEN "alertado"
         ELSE IF user.status = "alertado" THEN "inmaculado" ELSE user.status

\* the rules with only an active account paused for staleness
rule_status_pausing_active(tbl, user, t) ==
    IF user.last_login # NULL
    THEN IF /\ datetime_now(t) - fromisoformat(user.last_login) > PauseDays * SecondsPerDay
            /\ user.status = "activo"
         THEN "pausado"
         ELSE user.status
    ELSE IF check_consecutive_failed_logins(tbl, user.dni, FlagDays, t)
         THEN "alertado"
         ELSE user.status

\* update_user_status_based_on_rules: the status the rules leave in the
\* object before save()
rule_status(tbl, user, t) ==
    IF user.last_login # NULL
    THEN IF datetime_now(t) - fromisoformat(user.last_login) > PauseDays * SecondsPerDay
         THEN "pausado"
         ELSE user.status
    ELSE IF check_consecutive_failed_logins(tbl, user.dni, FlagDays, t)
         THEN "alertado"
         ELSE user.status

-----------------------------------------------------------------------------
(* The request handlers of src/app.py.  Each handler is a function of the  *)
(* database (U: users, A: activities), the session S, the clock t and the  *)
(* request's form fields; its value is the database and session it leaves  *)
(* and the answer it gives.                                                *)

EmptySession == [user_dni |-> NULL, is_admin |-> FALSE]

Answer(op, result) == [op |-> op, result |-> result]

Outcome(U, A, S, op, result) ==
    [users |-> U, activities |-> A, session |-> S, response |-> Answer(op, result)]

\* update_user_status_based_on_rules: the object the rules leave
update_user_status_based_on_rules(A, user, t) ==
    [user EXCEPT !.status = rule_status(A, user, t)]

\* app.register, POST
register(U, A, S, t, dni, password, confirm_password, salt) ==
    LET form == [dni |-> dni, password |-> password,
                 confirm_password |-> confirm_password]
        errors == validate_input(form, {"dni", "password", "confirm_password"})
        new_user == User(dni, generate_password_hash(password, salt), "inmaculado")
    IN  IF errors # {} THEN Outcome(U, A, S, "register", "required")
        ELSE IF ~validate_dni(dni).ok
             THEN Outcome(U, A, S, "register", validate_dni(dni).msg)
        ELSE IF password # confirm_password
             THEN Outcome(U, A, S, "register", "mismatch")
        ELSE IF ~validate_password(password).ok
             THEN Outcome(U, A, S, "register", validate_password(password).msg)
        ELSE IF find_by_dni(U, dni) # NULL
             THEN Outcome(U, A, S, "register", "exists")
        ELSE Outcome(save(U, new_user, t),
                     log_activity(A, dni, "registro", "exitoso", NULL, t),
                     S, "register", "ok")

\* login that refuses a gated account without logging the attempt
login_silent_denial(U, A, S, t, dni, password) ==
    LET found == find_by_dni(U, dni)
        user == update_user_status_based_on_rules(A, found, t)
        U1 == save(U, user, t)
    IN  IF dni = <<>> \/ password = <<>> THEN Outcome(U, A, S, "login", "required")
        ELSE IF found = NULL THEN Outcome(U, A, S, "login", "not_found")
        ELSE IF user.status \in BLOCKED_STATUSES
             THEN Outcome(U1, A, S, "login", "denied")
        ELSE IF check_password(user, password)
             THEN Outcome(save(U1, login_attempt_fields(user, TRUE, t), t),
                          log_activity(A, dni, "acceso", "exitoso", NULL, t),
                          [user_dni |-> dni, is_admin |-> FALSE],
                          "login", "success")
        ELSE Outcome(save(U1, login_attempt_fields(user, FALSE, t), t),
                     log_activity(A, dni, "acceso", "fallido", NULL, t),
                     S, "login", "wrong_password")

\* app.login, POST
login(U, A, S, t, dni, password) ==
    LET found == find_by_dni(U, dni)
        user == update_user_status_based_on_rules(A, found, t)
        U1 == save(U, user, t)
    IN  IF dni = <<>> \/ password = <<>> THEN Outcome(U, A, S, "login", "required")
        ELSE IF found = NULL THEN Outcome(U, A, S, "login", "not_found")
        ELSE IF user.status \in BLOCKED_STATUSES
             THEN Outcome(U1,
                          log_activity(A, dni, "acceso", "fallido",
                                       <<"Usuario", user.status>>, t),
                          S, "login", "denied")
        ELSE IF check_password(user, password)
             THEN Outcome(save(U1, login_attempt_fields(user, TRUE, t), t),
                          log_activity(A, dni, "acceso", "exitoso", NULL, t),
                          [user_dni |-> dni, is_admin |-> FALSE],
                          "login", "success")
        ELSE Outcome(save(U1, login_attempt_fields(user, FALSE, t), t),
                     log_activity(A, dni, "acceso", "fallido", NULL, t),
                     S, "login", "wrong_password")

\* app.admin_login, POST
admin_login(U, A, S, t, password) ==
    IF password = <<>> THEN Outcome(U, A, S, "admin_login", "required")
    ELSE IF password = ADMIN_PASSWORD
         THEN Outcome(U,
                      IF find_by_dni(U, ADMIN) # NULL
                      THEN log_activity(A, ADMIN, "admin_login", "exitoso", NULL, t)
                      ELSE A,
                      [user_dni |-> ADMIN, is_admin |-> TRUE],
                      "admin_login", "ok")
    ELSE Outcome(U, A, S, "admin_login", "wrong_password")

\* change_user_status without the test for the reserved account
change_user_status_any_account(U, A, S, t, dni, new_status) ==
    LET user == find_by_dni(U, dni) IN
    IF ~S.is_admin THEN Outcome(U, A, S, "change_status", "forbidden")
    ELSE IF dni = <<>> \/ new_status = "" THEN Outcome(U, A, S, "change_status", "required")
    ELSE IF user = NULL THEN Outcome(U, A, S, "change_status", "not_found")
    ELSE IF user.status = new_status THEN Outcome(U, A, S, "change_status", "same_status")
    ELSE Outcome(save(U, [user EXCEPT !.status = new_status], t),
                 IF find_by_dni(U, ADMIN) # NULL
                 THEN log_activity(A, ADMIN, "cambio_estado", "admin-ok",
                                   <<"Usuario", dni, "->", new_status>>, t)
                 ELSE A,
                 S, "change_status", "ok")

\* change_user_status that also clears the counter of failed attempts
change_user_status_resetting(U, A, S, t, dni, new_status) ==
    LET user == find_by_dni(U, dni) IN
    IF ~S.is_admin THEN Outcome(U, A, S, "change_status", "forbidden")
    ELSE IF dni = <<>> \/ new_status = "" THEN Outcome(U, A, S, "change_status", "required")
    ELSE IF dni = ADMIN THEN Outcome(U, A, S, "change_status", "is_admin_account")
    ELSE IF user = NULL THEN Outcome(U, A, S, "change_status", "not_found")
    ELSE IF user.status = new_status THEN Outcome(U, A, S, "change_status", "same_status")
    ELSE Outcome(save(U, [user EXCEPT !.status = new_status, !.login_attempts = 0], t),
                 IF find_by_dni(U, ADMIN) # NULL
                 THEN log_activity(A, ADMIN, "cambio_estado", "admin-ok",
                                   <<"Usuario", dni, "->", new_status>>, t)
                 ELSE A,
                 S, "change_status", "ok")

\* change_user_status that clears the counter of failed attempts of an
\* account it sets to active
change_user_status_forgiving(U, A, S, t, dni, new_status) ==
    LET user == find_by_dni(U, dni) IN
    IF ~S.is_admin THEN Outcome(U, A, S, "change_status", "forbidden")
    ELSE IF dni = <<>> \/ new_status = "" THEN Outcome(U, A, S, "change_status", "required")
    ELSE IF dni = ADMIN THEN Outcome(U, A, S, "change_status", "is_admin_account")
    ELSE IF user = NULL THEN Outcome(U, A, S, "change_status", "not_found")
    ELSE IF user.status = new_status THEN Outcome(U, A, S, "change_status", "same_status")
    ELSE Outcome(save(U, [user EXCEPT !.status = new_status,
                                      !.login_attempts =
                                          IF new_status = "activo" THEN 0 ELSE @], t),
                 IF find_by_dni(U, ADMIN) # NULL
                 THEN log_activity(A, ADMIN, "cambio_estado", "admin-ok",
                                   <<"Usuario", dni, "->", new_status>>, t)
                 ELSE A,
                 S, "change_status", "ok")

\* app.change_user_status, POST
change_user_status(U, A, S, t, dni, new_status) ==
    LET user == find_by_dni(U, dni) IN
    IF ~S.is_admin THEN Outcome(U, A, S, "change_status", "forbidden")
    ELSE IF dni = <<>> \/ new_status = "" THEN Outcome(U, A, S, "change_status", "required")
    ELSE IF dni = ADMIN THEN Outcome(U, A, S, "change_status", "is_admin_account")
    ELSE IF user = NULL THEN Outcome(U, A, S, "change_status", "not_found")
    ELSE IF user.status = new_status THEN Outcome(U, A, S, "change_status", "same_status")
    ELSE Outcome(save(U, [user EXCEPT !.status = new_status], t),
                 IF find_by_dni(U, ADMIN) # NULL
                 THEN log_activity(A, ADMIN, "cambio_estado", "admin-ok",
                                   <<"Usuario", dni, "->", new_status>>, t)
                 ELSE A,
                 S, "change_status", "ok")

\* change_user_password without the validation of the new password
change_user_password_unvalidated(U, A, S, t, dni, new_password, salt) ==
    LET user == find_by_dni(U, dni) IN
    IF ~S.is_admin THEN Outcome(U, A, S, "change_password", "forbidden")
    ELSE IF dni = <<>> \/ new_password = <<>>
         THEN Outcome(U, A, S, "change_password", "required")
    ELSE IF user = NULL THEN Outcome(U, A, S, "change_password", "not_found")
    ELSE Outcome(save(U, [user EXCEPT !.password_hash =
                                generate_password_hash(new_password, salt)], t),
                 IF find_by_dni(U, ADMIN) # NULL
                 THEN log_activity(A, ADMIN, "cambio_password", "admin-ok",
                                   <<"Usuario", dni>>, t)
                 ELSE A,
                 S, "change_password", "ok")

\* app.change_user_password, POST
change_user_password(U, A, S, t, dni, new_password, salt) ==
    LET user == find_by_dni(U, dni) IN
    IF ~S.is_admin THEN Outcome(U, A, S, "change_password", "forbidden")
    ELSE IF dni = <<>> \/ new_password = <<>>
         THEN Outcome(U, A, S, "change_password", "required")
    ELSE IF user = NULL THEN Outcome(U, A, S, "change_password", "not_found")
    ELSE IF ~validate_password(new_password).ok
         THEN Outcome(U, A, S, "change_password", validate_password(new_password).msg)
    ELSE Outcome(save(U, [user EXCEPT !.password_hash =
                                generate_password_hash(new_password, salt)], t),
                 IF find_by_dni(U, ADMIN) # NULL
                 THEN log_activity(A, ADMIN, "cambio_password", "admin-ok",
                                   <<"Usuario", dni>>, t)
                 ELSE A,
                 S, "change_password", "ok")

\* app.logout
logout(U, A, S, t) ==
    LET user == IF S.user_dni # NULL THEN find_by_dni(U, S.user_dni) ELSE NULL
    IN  Outcome(U,
                IF user # NULL
                THEN log_activity(A, user.dni, "logout", "exitoso", NULL, t)
                ELSE A,
                EmptySession, "logout", "ok")

-----------------------------------------------------------------------------
(* State after construction: Database.init_db has created both tables and  *)
(* inserted the administrator's row.                                       *)

AdminSalt == "s0"

init_db(t) ==
    <<[id |-> 1, dni |-> ADMIN,
       password_hash |-> generate_password_hash(ADMIN_PASSWORD, AdminSalt),
       status |-> "activo", created_at |-> isoformat(t),
       last_login |-> NULL, login_attempts |-> 0, last_attempt |-> NULL]>>

\* The server threads that serve requests at the same time (app.run serves
\* each request in a thread of its own)
Threads == {"t1", "t2"}

\* A thread with no request: pc is the statement it is at, user the User
\* object of the handler, existing_user what save() found, after the caller
\* save() returns to, entry the row log_activity is about to insert,
\* unaudited whether the request has written an account and not yet logged
Idle ==
    [pc |-> "idle", op |-> "none", user |-> NULL, password |-> NULL,
     existing_user |-> FALSE, after |-> "none", result |-> "none",
     entry |-> NULL, unaudited |-> FALSE]

\* the deployments: a server on UTC, and one on Argentina's time
UtcOffsets == {0, 0 - 3 * 3600}

Boot(offsets) ==
    /\ now = 0
    /\ utc_offset \in offsets
    /\ users = init_db(0)
    /\ activities = <<>>
    /\ session = EmptySession
    /\ response = Answer("init", "ok")
    /\ threads = [th \in Threads |-> Idle]

Init == Boot(UtcOffsets)

\* In the specifications whose clock never shows five different dates the
\* rule on consecutive days cannot fire and the offset of the server has
\* no effect: they start from a server on UTC.
InitUtc == Boot({0})

\* One request, served from start to end
Serve(o) ==
    /\ users' = o.users
    /\ activities' = o.activities
    /\ session' = o.session
    /\ response' = o.response
    /\ UNCHANGED <<now, utc_offset, threads>>

\* The clock advances between requests
Tick(d) ==
    /\ now' = now + d
    /\ UNCHANGED <<users, activities, session, utc_offset, response, threads>>

Account(d) == find_by_dni(users, d)
LastActivity == activities[Len(activities)]

-----------------------------------------------------------------------------
(* Requests served by threads, one database statement at a time.  Every    *)
(* get_cursor() block of the code is a connection of its own, committed    *)
(* when the block ends: find_by_dni, the write of save() and the INSERT of *)
(* log_activity are separate transactions, and the statements of other     *)
(* threads can fall between them.  What a handler computes in memory       *)
(* between two statements is part of the step of the statement before.     *)

\* the request of th ends: the thread is free, the answer is given
Finish(th, result, S) ==
    /\ threads' = [threads EXCEPT ![th] = [Idle EXCEPT !.unaudited = threads[th].unaudited]]
    /\ response' = Answer(threads[th].op, result)
    /\ session' = S

\* app.register up to new_user.save(): the validations and the lookup of
\* the dni; a form that passes them goes on to save()
StartRegister(th, dni, password, confirm_password, salt) ==
    LET o == register(users, activities, session, now, dni, password,
                      confirm_password, salt)
    IN  /\ threads[th].pc = "idle"
        /\ IF o.response.result = "ok"
           THEN /\ threads' = [threads EXCEPT ![th] =
                        [Idle EXCEPT !.pc = "save_find", !.op = "register",
                                     !.user = User(dni, generate_password_hash(password, salt),
                                                   "inmaculado"),
                                     !.after = "register"]]
                /\ UNCHANGED response
           ELSE /\ threads' = [threads EXCEPT ![th] = Idle]
                /\ response' = o.response
        /\ UNCHANGED <<users, activities, session, now, utc_offset>>

\* app.login up to update_user_status_based_on_rules(user): the test of
\* the fields and User.find_by_dni
StartLogin(th, dni, password) ==
    LET found == find_by_dni(users, dni)
    IN  /\ threads[th].pc = "idle"
        /\ IF dni = <<>> \/ password = <<>>
           THEN /\ threads' = [threads EXCEPT ![th] = Idle]
                /\ response' = Answer("login", "required")
           ELSE IF found = NULL
           THEN /\ threads' = [threads EXCEPT ![th] = Idle]
                /\ response' = Answer("login", "not_found")
           ELSE /\ threads' = [threads EXCEPT ![th] =
                        [Idle EXCEPT !.pc = "rules", !.op = "login",
                                     !.user = found, !.password = password]]
                /\ UNCHANGED response
        /\ UNCHANGED <<users, activities, session, now, utc_offset>>

\* update_user_status_based_on_rules up to user.save(): the rules are
\* applied to the object, reading the activities for the rule on
\* consecutive days
Rules(th) ==
    /\ threads[th].pc = "rules"
    /\ threads' = [threads EXCEPT ![th] =
            [threads[th] EXCEPT
                !.pc = "save_find", !.after = "rules",
                !.user = update_user_status_based_on_rules(activities, threads[th].user, now)]]
    /\ UNCHANGED <<users, activities, session, now, utc_offset, response>>

\* save(): existing_user = User.find_by_dni(self.dni)
SaveFind(th) ==
    /\ threads[th].pc = "save_find"
    /\ threads' = [threads EXCEPT ![th] =
            [threads[th] EXCEPT
                !.pc = "save_write",
                !.existing_user = row_exists(find_by_dni(users, threads[th].user.dni))]]
    /\ UNCHANGED <<users, activities, session, now, utc_offset, response>>

\* What the handler does in memory between the return of save() and its
\* next statement on the database
AfterSave(thread) ==
    IF thread.after = "register"
    THEN [thread EXCEPT !.pc = "log", !.result = "ok",
                        !.entry = [action_type |-> "registro", result |-> "exitoso",
                                   details |-> NULL]]
    ELSE IF thread.after = "rules"
    THEN IF thread.user.status \in BLOCKED_STATUSES
         THEN [thread EXCEPT !.pc = "log", !.result = "denied",
                             !.entry = [action_type |-> "acceso", result |-> "fallido",
                                        details |-> <<"Usuario", thread.user.status>>]]
         ELSE LET success == check_password(thread.user, thread.password) IN
              [thread EXCEPT !.pc = "save_find", !.after = "update_login_attempt",
                             !.result = IF success THEN "success" ELSE "wrong_password",
                             !.user = login_attempt_fields(thread.user, success, now)]
    ELSE [thread EXCEPT !.pc = "log",
                        !.entry = [action_type |-> "acceso",
                                   result |-> IF thread.result = "success"
                                              THEN "exitoso" ELSE "fallido",
                                   details |-> NULL]]

\* save(): the UPDATE, or the INSERT, that the lookup decided on.  An
\* INSERT of a dni that another thread inserted meanwhile raises
\* IntegrityError, and the request ends with an internal error.
SaveWrite(th) ==
    LET thread == threads[th] IN
    /\ thread.pc = "save_write"
    /\ IF ~thread.existing_user /\ IntegrityError(users, thread.user.dni)
       THEN /\ Finish(th, "integrity_error", session)
            /\ UNCHANGED users
       ELSE /\ users' = IF thread.existing_user
                        THEN UPDATE_users(users, thread.user)
                        ELSE INSERT_users(users, thread.user, now)
            /\ threads' = [threads EXCEPT ![th] =
                    AfterSave([thread EXCEPT !.unaudited = @ \/ users' # users])]
            /\ UNCHANGED <<session, response>>
    /\ UNCHANGED <<activities, now, utc_offset>>

\* log_activity's INSERT, and the end of the handler: a login that
\* succeeded writes the session
Log(th) ==
    LET thread == threads[th] IN
    /\ thread.pc = "log"
    /\ activities' = log_activity(activities, thread.user.dni, thread.entry.action_type,
                                  thread.entry.result, thread.entry.details, now)
    /\ threads' = [threads EXCEPT ![th] = Idle]
    /\ response' = Answer(thread.op, thread.result)
    /\ session' = IF thread.result = "success"
                  THEN [user_dni |-> thread.user.dni, is_admin |-> FALSE]
                  ELSE session
    /\ UNCHANGED <<users, now, utc_offset>>

\* log_activity's INSERT raises (the database is locked, or full): the
\* exception leaves the handler and the request ends with an internal
\* error
LogFails(th) ==
    /\ threads[th].pc = "log"
    /\ Finish(th, "storage_error", session)
    /\ UNCHANGED <<users, activities, now, utc_offset>>

\* the write of save() raises: its connection rolls back
SaveFails(th) ==
    /\ threads[th].pc = "save_write"
    /\ Finish(th, "storage_error", session)
    /\ UNCHANGED <<users, activities, now, utc_offset>>

Busy == {th \in Threads : threads[th].pc # "idle"}

-----------------------------------------------------------------------------
(* Inputs of the requests *)

DniA == <<"1", "2", "3", "4", "5", "6">>
Dni8 == <<"2", "0", "3", "4", "5", "6", "7", "8">>
Dni5 == <<"1", "2", "3", "4", "5">>
Dni9 == <<"1", "2", "3", "4", "5", "6", "7", "8", "9">>
DniAlpha == <<"1", "2", "3", "4", "5", "x">>
DniBlank == <<" ", " ", " ", " ", " ", " ">>

PwA == <<"A", "b", "c", "d", "e", "f", "1", "!">>
PwB == <<"Z", "y", "x", "w", "v", "u", "9", "?">>
Pw12 == <<"Q", "w", "e", "r", "t", "y", "1", "2", "3", "4", "5", "#">>
Pw7 == <<"A", "b", "c", "d", "e", "1", "!">>
Pw13 == <<"Q", "w", "e", "r", "t", "y", "1", "2", "3", "4", "5", "6", "#">>
PwNoUpper == <<"a", "b", "c", "d", "e", "f", "1", "!">>
PwNoSpecial == <<"A", "b", "c", "d", "e", "f", "1", "2">>
PwBlank == <<" ", " ", " ", " ", " ", " ", " ", " ">>
PwWrong == <<"w", "r", "o", "n", "g">>

Salts == {"s1", "s2"}

Dnis == {DniA, ADMIN}
AnyDni == {DniA, Dni8, Dni5, Dni9, DniAlpha, DniBlank, ADMIN, <<>>}
AnyPassword == {PwA, PwB, Pw12, Pw7, Pw13, PwNoUpper, PwNoSpecial, PwBlank, PwWrong,
                ADMIN_PASSWORD, <<>>}
RegDnis == {DniA, Dni8, Dni5, Dni9, DniAlpha}
RegPasswords == {PwA, Pw12, Pw7, Pw13, PwNoUpper, PwNoSpecial}
LoginPasswords == {PwA, PwB, PwWrong, ADMIN_PASSWORD}
NewStatuses == Statuses \cup {"bogus"}
AnySession == {EmptySession, [user_dni |-> ADMIN, is_admin |-> TRUE]}

\* dni, password, confirm_password of the forms posted to /register
RegisterForms == {<<DniA, PwA, PwA>>, <<DniA, PwNoSpecial, PwNoSpecial>>}

-----------------------------------------------------------------------------
(* Bounds *)

MaxLog == 4
MaxLongTicks == 1
MaxLogBrute == 7
MaxShortTicks == 2
MaxLogStale == 3
MaxStaleTicks == 1
MaxLogDays == 7
MaxDayTicks == 5
MaxLogReg == 3
MaxLogProbe == 7
MaxLogRace == 3
MaxLogFault == 3
MaxFaultTicks == 1
MaxLogPassword == 5
MaxPasswordTicks == 1
MaxProbeTicks == 4
MaxLogGate == 4
MaxGateTicks == 1
MaxLogOverride == 6
MaxOverrideTicks == 1
MaxLogUnblock == 9
MaxUnblockTicks == 1

\* steps of the clock: within the blocking window, one day, the pause
\* threshold, and beyond the pause threshold
ShortStep == (3 * BlockWindow) \div 4
DayStep == SecondsPerDay
StaleStep == PauseDays * SecondsPerDay
LongStep == (PauseDays + 1) * SecondsPerDay

-----------------------------------------------------------------------------
(* Spec: every operation, in any order, one request at a time *)

LogRoom == Len(activities) < MaxLog

TickLong == now \div LongStep < MaxLongTicks /\ Tick(LongStep)

Register ==
    /\ LogRoom
    /\ \E f \in RegisterForms :
          Serve(register(users, activities, session, now, f[1], f[2], f[3], "s1"))

Login ==
    /\ LogRoom
    /\ \E d \in Dnis, p \in {PwA, PwWrong} : Serve(login(users, activities, session, now, d, p))

AdminLogin ==
    /\ LogRoom
    /\ \E p \in {ADMIN_PASSWORD, PwWrong} : Serve(admin_login(users, activities, session, now, p))

ChangeStatus ==
    /\ LogRoom
    /\ \E f \in ({DniA} \X {"activo", "inmaculado", "suspendido", "bogus"})
                 \cup {<<ADMIN, "suspendido">>} :
          Serve(change_user_status(users, activities, session, now, f[1], f[2]))

ChangePassword ==
    /\ LogRoom
    /\ \E p \in {PwB, PwWrong} :
          Serve(change_user_password(users, activities, session, now, DniA, p, "s2"))

Logout == LogRoom /\ Serve(logout(users, activities, session, now))

Next ==
    \/ TickLong
    \/ Register
    \/ Login
    \/ AdminLogin
    \/ ChangeStatus
    \/ ChangePassword
    \/ Logout

Spec == InitUtc /\ [][Next]_vars

-----------------------------------------------------------------------------
(* SpecBrute: one account under repeated login attempts, seconds apart *)

BruteTick == (now % SecondsPerDay) \div ShortStep < MaxShortTicks /\ Tick(ShortStep)

BruteRegister ==
    /\ Len(activities) < MaxLogBrute
    /\ Serve(register(users, activities, session, now, DniA, PwA, PwA, "s1"))

BruteLogin ==
    /\ Len(activities) < MaxLogBrute
    /\ \E p \in {PwA, PwWrong} : Serve(login(users, activities, session, now, DniA, p))

NextBrute ==
    \/ BruteTick
    \/ BruteRegister
    \/ BruteLogin

SpecBrute == InitUtc /\ [][NextBrute]_vars

-----------------------------------------------------------------------------
(* SpecStale: one account around the pause threshold *)

StaleTickShort == (now % SecondsPerDay) \div ShortStep < MaxShortTicks /\ Tick(ShortStep)

StaleTick == now \div StaleStep < MaxStaleTicks /\ Tick(StaleStep)

StaleRegister ==
    /\ Len(activities) < MaxLogStale
    /\ Serve(register(users, activities, session, now, DniA, PwA, PwA, "s1"))

StaleLogin ==
    /\ Len(activities) < MaxLogStale
    /\ \E p \in {PwA, PwWrong} : Serve(login(users, activities, session, now, DniA, p))

NextStale ==
    \/ StaleTickShort
    \/ StaleTick
    \/ StaleRegister
    \/ StaleLogin

SpecStale == InitUtc /\ [][NextStale]_vars

-----------------------------------------------------------------------------
(* SpecDays: one account under login attempts on successive days *)

DaysTick == now \div DayStep < MaxDayTicks /\ Tick(DayStep)

DaysRegister ==
    /\ Len(activities) < MaxLogDays
    /\ Account(DniA) = NULL
    /\ Serve(register(users, activities, session, now, DniA, PwA, PwA, "s1"))

DaysLogin ==
    /\ Len(activities) < MaxLogDays
    /\ \E p \in {PwA, PwWrong} : Serve(login(users, activities, session, now, DniA, p))

NextDays ==
    \/ DaysTick
    \/ DaysRegister
    \/ DaysLogin

SpecDays == Init /\ [][NextDays]_vars

-----------------------------------------------------------------------------
(* SpecProbe: one account that receives at least one login on every day *)

ProbeTick ==
    /\ now \div DayStep < MaxProbeTicks
    /\ activities # <<>>
    /\ LastActivity.action_type = "acceso"
    /\ DATE(LastActivity.timestamp) = DATE(isoformat(now))
    /\ Tick(DayStep)

ProbeRegister ==
    /\ Len(activities) < MaxLogProbe
    /\ Account(DniA) = NULL
    /\ Serve(register(users, activities, session, now, DniA, PwA, PwA, "s1"))

ProbeLogin ==
    /\ Len(activities) < MaxLogProbe
    /\ \E p \in {PwA, PwWrong} : Serve(login(users, activities, session, now, DniA, p))

NextProbe ==
    \/ ProbeTick
    \/ ProbeRegister
    \/ ProbeLogin

SpecProbe == Init /\ [][NextProbe]_vars

-----------------------------------------------------------------------------
(* SpecPassword: the administrator changes passwords, the account logs in *)

PasswordTick == now \div LongStep < MaxPasswordTicks /\ Tick(LongStep)

PasswordRegister ==
    /\ Len(activities) < MaxLogPassword
    /\ Serve(register(users, activities, session, now, DniA, PwA, PwA, "s1"))

PasswordAdminLogin ==
    /\ Len(activities) < MaxLogPassword
    /\ Serve(admin_login(users, activities, session, now, ADMIN_PASSWORD))

PasswordChange ==
    /\ Len(activities) < MaxLogPassword
    /\ \E f \in {<<DniA, PwA>>, <<DniA, PwB>>, <<DniA, PwNoSpecial>>, <<Dni8, PwB>>} :
          Serve(change_user_password(users, activities, session, now, f[1], f[2], "s2"))

PasswordLogin ==
    /\ Len(activities) < MaxLogPassword
    /\ \E p \in {PwA, PwB} : Serve(login(users, activities, session, now, DniA, p))

NextPassword ==
    \/ PasswordTick
    \/ PasswordRegister
    \/ PasswordAdminLogin
    \/ PasswordChange
    \/ PasswordLogin

SpecPassword == InitUtc /\ [][NextPassword]_vars

-----------------------------------------------------------------------------
(* SpecGate: the administrator moves an account between statuses, the     *)
(* account registers, logs in and out, and half a year may pass           *)

GateTick == now \div LongStep < MaxGateTicks /\ Tick(LongStep)

GateRegister ==
    /\ Len(activities) < MaxLogGate
    /\ Serve(register(users, activities, session, now, DniA, PwA, PwA, "s1"))

GateLogin ==
    /\ Len(activities) < MaxLogGate
    /\ \E p \in {PwA, PwWrong} : Serve(login(users, activities, session, now, DniA, p))

GateLogout ==
    /\ Len(activities) < MaxLogGate
    /\ Serve(logout(users, activities, session, now))

GateAdminLogin ==
    /\ Len(activities) < MaxLogGate
    /\ Serve(admin_login(users, activities, session, now, ADMIN_PASSWORD))

GateChangeStatus ==
    /\ Len(activities) < MaxLogGate
    /\ \E s \in BLOCKED_STATUSES \cup {"activo"} :
          Serve(change_user_status(users, activities, session, now, DniA, s))

NextGate ==
    \/ GateTick
    \/ GateRegister
    \/ GateLogin
    \/ GateLogout
    \/ GateAdminLogin
    \/ GateChangeStatus

SpecGate == InitUtc /\ [][NextGate]_vars

-----------------------------------------------------------------------------
(* SpecOverride: an account logs in, half a year passes, the              *)
(* administrator, who logs in when not yet in session, sets its status    *)
(* and it logs in again                                                   *)

OverrideTick == now \div LongStep < MaxOverrideTicks /\ Tick(LongStep)

OverrideRegister ==
    /\ Len(activities) < MaxLogOverride
    /\ Serve(register(users, activities, session, now, DniA, PwA, PwA, "s1"))

OverrideLogin ==
    /\ Len(activities) < MaxLogOverride
    /\ Serve(login(users, activities, session, now, DniA, PwA))

OverrideAdminLogin ==
    /\ Len(activities) < MaxLogOverride
    /\ ~session.is_admin
    /\ Serve(admin_login(users, activities, session, now, ADMIN_PASSWORD))

OverrideChangeStatus ==
    /\ Len(activities) < MaxLogOverride
    /\ \E s \in {"activo", "suspendido", "bloqueado"} :
          Serve(change_user_status(users, activities, session, now, DniA, s))

NextOverride ==
    \/ OverrideTick
    \/ OverrideRegister
    \/ OverrideLogin
    \/ OverrideAdminLogin
    \/ OverrideChangeStatus

SpecOverride == InitUtc /\ [][NextOverride]_vars

-----------------------------------------------------------------------------
(* SpecUnblock: an account is registered once, logs in with the right and *)
(* the wrong password until it is blocked, half a year may pass while it  *)
(* is blocked, and the administrator, who logs in when not yet in         *)
(* session, sets it back to active                                        *)

UnblockTick ==
    /\ now \div LongStep < MaxUnblockTicks
    /\ Account(DniA) # NULL
    /\ Account(DniA).status = "bloqueado"
    /\ Tick(LongStep)

UnblockRegister ==
    /\ Len(activities) < MaxLogUnblock
    /\ Account(DniA) = NULL
    /\ Serve(register(users, activities, session, now, DniA, PwA, PwA, "s1"))

UnblockLogin ==
    /\ Len(activities) < MaxLogUnblock
    /\ \E p \in {PwA, PwWrong} : Serve(login(users, activities, session, now, DniA, p))

UnblockAdminLogin ==
    /\ Len(activities) < MaxLogUnblock
    /\ ~session.is_admin
    /\ Serve(admin_login(users, activities, session, now, ADMIN_PASSWORD))

UnblockChangeStatus ==
    /\ Len(activities) < MaxLogUnblock
    /\ Serve(change_user_status(users, activities, session, now, DniA, "activo"))

NextUnblock ==
    \/ UnblockTick
    \/ UnblockRegister
    \/ UnblockLogin
    \/ UnblockAdminLogin
    \/ UnblockChangeStatus

SpecUnblock == InitUtc /\ [][NextUnblock]_vars

-----------------------------------------------------------------------------
(* SpecReg: registration forms of every kind, and logins *)

RegRegister ==
    /\ Len(activities) < MaxLogReg
    /\ \E d \in RegDnis, p \in RegPasswords, same \in BOOLEAN, salt \in Salts :
          Serve(register(users, activities, session, now, d, p,
                         IF same THEN p ELSE PwB, salt))

RegLogin ==
    /\ Len(activities) < MaxLogReg
    /\ \E d \in {DniA, Dni8}, p \in {PwA, Pw12} :
          Serve(login(users, activities, session, now, d, p))

NextReg ==
    \/ RegRegister
    \/ RegLogin

SpecReg == InitUtc /\ [][NextReg]_vars

-----------------------------------------------------------------------------
(* SpecRace: registrations and logins of one identifier, served by two     *)
(* threads at the same time *)

RaceRoom == Len(activities) + Cardinality(Busy) < MaxLogRace

RaceStartRegister ==
    /\ RaceRoom
    /\ \E th \in Threads, f \in {<<PwA, "s1">>, <<PwB, "s2">>} :
          StartRegister(th, DniA, f[1], f[1], f[2])

RaceStartLogin ==
    /\ RaceRoom
    /\ \E th \in Threads, p \in {PwA, PwWrong} : StartLogin(th, DniA, p)

RaceRules == \E th \in Threads : Rules(th)

RaceSaveFind == \E th \in Threads : SaveFind(th)

RaceSaveWrite == \E th \in Threads : SaveWrite(th)

RaceLog == \E th \in Threads : Log(th)

NextRace ==
    \/ RaceStartRegister
    \/ RaceStartLogin
    \/ RaceRules
    \/ RaceSaveFind
    \/ RaceSaveWrite
    \/ RaceLog

SpecRace == InitUtc /\ [][NextRace]_vars

-----------------------------------------------------------------------------
(* SpecFault: one request at a time, on a database whose writes can fail *)

FaultRoom == Len(activities) < MaxLogFault /\ Busy = {}

FaultTick == Busy = {} /\ now \div LongStep < MaxFaultTicks /\ Tick(LongStep)

FaultStartRegister == FaultRoom /\ StartRegister("t1", DniA, PwA, PwA, "s1")

FaultStartLogin == FaultRoom /\ \E p \in {PwA, PwWrong} : StartLogin("t1", DniA, p)

FaultRules == Rules("t1")

FaultSaveFind == SaveFind("t1")

FaultSaveWrite == SaveWrite("t1")

FaultSaveFails == SaveFails("t1")

FaultLog == Log("t1")

FaultLogFails == LogFails("t1")

NextFault ==
    \/ FaultTick
    \/ FaultStartRegister
    \/ FaultStartLogin
    \/ FaultRules
    \/ FaultSaveFind
    \/ FaultSaveWrite
    \/ FaultSaveFails
    \/ FaultLog
    \/ FaultLogFails

SpecFault == InitUtc /\ [][NextFault]_vars

-----------------------------------------------------------------------------
(* Properties *)

Appended(A, B) == Len(B) = Len(A) + 1 /\ SubSeq(B, 1, Len(A)) = A

\* the policy as the specification words it
GatedStatuses == {"bloqueado", "pausado", "alertado", "suspendido"}
IdentifierOk(d) == Len(d) \in 6..8 /\ \A i \in 1..Len(d) : d[i] \in DigitChars
PasswordOk(p) ==
    /\ Len(p) \in 8..12
    /\ \E i \in 1..Len(p) : p[i] \in UpperChars
    /\ \E i \in 1..Len(p) : p[i] \in SpecialChars

\* C1: for every valid identifier and every policy-compliant password, a
\* successful register followed by authenticate with the same password
\* (at once, or any time later) succeeds and leaves the account active,
\* with login_attempts 0 and last_login set.
C1_RegisterThenAuthenticate ==
    \A d \in AnyDni, p \in AnyPassword, salt \in Salts :
        LET r == register(users, activities, session, now, d, p, p, salt) IN
        (IdentifierOk(d) /\ PasswordOk(p) /\ r.response.result = "ok") =>
            \A gap \in {0, ShortStep, DayStep, LongStep} :
                LET o == login(r.users, r.activities, r.session, now + gap, d, p)
                    a == find_by_dni(o.users, d)
                IN  /\ o.response.result = "success"
                    /\ a.status = "activo"
                    /\ a.login_attempts = 0
                    /\ a.last_login # NULL

\* C1 witness: an account was registered and its next request, a login,
\* succeeded.
C1_Witness ==
    /\ Len(activities) >= 2
    /\ response = Answer("login", "success")
    /\ LET reg == activities[Len(activities) - 1] IN
          /\ reg.action_type = "registro"
          /\ reg.user_dni = LastActivity.user_dni
          /\ LastActivity.action_type = "acceso"
          /\ LastActivity.result = "exitoso"
          /\ Account(reg.user_dni).status = "activo"

\* C4: whenever the status after the pre-login rule evaluation is blocked,
\* paused, flagged or suspended, authenticate is rejected without
\* verifying the password: every password, the correct one included, gives
\* the same answer and the same state, login_attempts, last_attempt and
\* last_login are unchanged, no session is granted, and exactly one failed
\* access event annotated with the status is appended.
C4_LoginGate ==
    \A i \in 1..Len(users) :
        LET u == users[i]
            st == rule_status(activities, u, now)
        IN  st \in GatedStatuses =>
              \A p \in LoginPasswords :
                LET o == login(users, activities, session, now, u.dni, p)
                    a == find_by_dni(o.users, u.dni)
                    e == o.activities[Len(o.activities)]
                IN  /\ o.response.result = "denied"
                    /\ \A q \in LoginPasswords :
                          login(users, activities, session, now, u.dni, q) = o
                    /\ a.login_attempts = u.login_attempts
                    /\ a.last_attempt = u.last_attempt
                    /\ a.last_login = u.last_login
                    /\ o.session = session
                    /\ Appended(activities, o.activities)
                    /\ e.user_dni = u.dni
                    /\ e.action_type = "acceso"
                    /\ e.result = "fallido"
                    /\ e.details = <<"Usuario", st>>

\* C4 witness: a login was denied at the gate for an account whose
\* password is among those tried.
C4_Witness ==
    /\ response = Answer("login", "denied")
    /\ LastActivity.details = <<"Usuario", Account(LastActivity.user_dni).status>>
    /\ \E p \in LoginPasswords : check_password(Account(LastActivity.user_dni), p)

\* the wrong-password outcomes of d since its last successful login
FailuresSinceSuccess(d) ==
    LET mine == {j \in 1..Len(activities) :
                    activities[j].user_dni = d /\ activities[j].action_type = "acceso"}
        wins == {j \in mine : activities[j].result = "exitoso"}
        from == IF wins = {} THEN 0 ELSE Max(wins)
    IN  Cardinality({j \in mine : /\ j > from
                                  /\ activities[j].result = "fallido"
                                  /\ activities[j].details = NULL})

\* C7: after any sequence of requests, an account's login_attempts is not
\* negative and is the number of wrong-password outcomes since its last
\* successful login (or since registration); so it is 0 after a success,
\* and gate denials and admin operations leave it alone.
C7_CounterCountsFailures ==
    \A i \in 1..Len(users) :
        /\ users[i].login_attempts >= 0
        /\ users[i].login_attempts = FailuresSinceSuccess(users[i].dni)

\* C7 witness: a successful login has reset a counter that failures had
\* raised.
C7_Witness ==
    /\ response = Answer("login", "success")
    /\ Account(LastActivity.user_dni).login_attempts = 0
    /\ \E j \in 1..Len(activities) :
          /\ activities[j].user_dni = LastActivity.user_dni
          /\ activities[j].action_type = "acceso"
          /\ activities[j].result = "fallido"
          /\ activities[j].details = NULL

\* C8: changeStatus fails and leaves every account and the audit log as
\* they were when the identifier is the reserved account, with any session
\* and any new status, when the account does not exist, and when the new
\* status is the current one.
C8_ChangeStatusRefused ==
    \A d \in {DniA, Dni8, ADMIN}, s \in NewStatuses, S \in {session, [user_dni |-> ADMIN, is_admin |-> TRUE]} :
        LET o == change_user_status(users, activities, S, now, d, s) IN
        (d = ADMIN \/ Account(d) = NULL \/ Account(d).status = s) =>
            /\ o.response.result # "ok"
            /\ o.users = users
            /\ o.activities = activities

\* C8 witness: an administrator asked to change the reserved account and
\* was refused.
C8_Witness ==
    /\ response = Answer("change_status", "is_admin_account")
    /\ session.is_admin

\* C9: a successful changeStatus sets the status of that account to the
\* new status as given, whatever the rules would say, changes no other
\* field of it and no other account, and appends one status_change event.
C9_ChangeStatusFrame ==
    \A d \in AnyDni, s \in NewStatuses :
        LET o == change_user_status(users, activities, session, now, d, s) IN
        o.response.result = "ok" =>
            /\ Len(o.users) = Len(users)
            /\ \A i \in 1..Len(users) :
                  o.users[i] = IF users[i].dni = d
                               THEN [users[i] EXCEPT !.status = s]
                               ELSE users[i]
            /\ Appended(activities, o.activities)
            /\ o.activities[Len(o.activities)].action_type = "cambio_estado"

\* C9 witness: a status change was carried out on an account that has
\* failures counted and a last_attempt.
C9_Witness ==
    /\ response = Answer("change_status", "ok")
    /\ LastActivity.action_type = "cambio_estado"
    /\ Account(DniA) # NULL
    /\ Account(DniA).login_attempts > 0
    /\ Account(DniA).last_attempt # NULL

\* C10: register rejects, with no account persisted and no audit event
\* appended, every form whose password breaks a policy rule, whose
\* identifier is not 6 to 8 digits, or whose confirmation differs.
C10_RegisterRejects ==
    \A d \in AnyDni, p \in AnyPassword, c \in {PwA, PwB, PwNoUpper}, salt \in Salts :
      \A confirm \in {p, c} :
        LET r == register(users, activities, session, now, d, p, confirm, salt) IN
        (~IdentifierOk(d) \/ ~PasswordOk(p) \/ confirm # p) =>
            /\ r.response.result # "ok"
            /\ r.users = users
            /\ r.activities = activities

\* C10 witness: a form with a valid identifier and a password that lacks
\* only the special character was rejected.
C10_Witness ==
    response = Answer("register", "password_no_special")

\* the login events of d, oldest first
AccessRows(d) ==
    SelectSeq(activities, LAMBDA r : r.user_dni = d /\ r.action_type = "acceso")

WrongPassword(r) == r.action_type = "acceso" /\ r.result = "fallido" /\ r.details = NULL

\* the last n login events of d, in a, are wrong-password failures, each
\* at most 60 seconds after the one before, and what precedes them left
\* the counter at 0 (nothing, or a success)
RapidFailures(a, n) ==
    /\ Len(a) >= n
    /\ \A k \in (Len(a) - n + 1)..Len(a) : WrongPassword(a[k])
    /\ \A k \in (Len(a) - n + 2)..Len(a) :
          fromisoformat(a[k].timestamp) - fromisoformat(a[k - 1].timestamp) <= 60
    /\ Len(a) > n => a[Len(a) - n].result = "exitoso"

\* C2: from a non-gated account with login_attempts 0, five wrong-password
\* authenticate calls, each at most 60 seconds after the one before, leave
\* the status blocked; a sixth call is then denied whatever its password,
\* the correct one included, with the same outcome for all of them.
C2_FiveFailuresBlock ==
    \A i \in 1..Len(users) :
        LET u == users[i] IN
        (/\ RapidFailures(AccessRows(u.dni), 5)
         /\ LastActivity.user_dni = u.dni
         /\ WrongPassword(LastActivity)) =>
            /\ u.status = "bloqueado"
            /\ \A p \in LoginPasswords :
                  LET o == login(users, activities, session, now, u.dni, p) IN
                  /\ o.response.result = "denied"
                  /\ find_by_dni(o.users, u.dni).login_attempts = u.login_attempts
                  /\ \A q \in LoginPasswords :
                        login(users, activities, session, now, u.dni, q) = o

\* C2 witness: the sixth call, after five failures seconds apart, was
\* denied for a blocked account.
C2_Witness ==
    /\ response = Answer("login", "denied")
    /\ LastActivity.details = <<"Usuario", "bloqueado">>
    /\ LET a == AccessRows(LastActivity.user_dni) IN
          RapidFailures(SubSeq(a, 1, Len(a) - 1), 5)
    /\ Account(LastActivity.user_dni).status = "bloqueado"
    /\ check_password(Account(LastActivity.user_dni), PwA)

\* C3 as stated: a wrong-password authenticate sets the status to blocked
\* if and only if the counter after the increment is 5 or more and the
\* failure before it (the last_attempt stored before this one) is less
\* than 60 seconds old; otherwise the status is left as it was.
C3_BlockedOnlyWhenRapid ==
    [][(Appended(activities, activities') /\ WrongPassword(activities'[Len(activities')])) =>
          LET d == activities'[Len(activities')].user_dni
              u == find_by_dni(users, d)
              a == find_by_dni(users', d)
              rapid == /\ a.login_attempts >= 5
                       /\ u.last_attempt # NULL
                       /\ datetime_now(now) - fromisoformat(u.last_attempt) < 60
          IN  IF rapid THEN a.status = "bloqueado" ELSE a.status = u.status]_vars

\* C5: an account whose last_login is more than 180 days old is moved to
\* paused, and saved so, by the next authenticate before the gate, which
\* then denies every password, the correct one included; with a last_login
\* 180 days old or less the call does not move it to paused.
C5_PausedWhenStale ==
    \A i \in 1..Len(users) :
        LET u == users[i] IN
        u.last_login # NULL =>
            \A p \in LoginPasswords :
                LET o == login(users, activities, session, now, u.dni, p)
                    a == find_by_dni(o.users, u.dni)
                IN  IF datetime_now(now) - fromisoformat(u.last_login) > 180 * SecondsPerDay
                    THEN a.status = "pausado" /\ o.response.result = "denied"
                    ELSE u.status # "pausado" => a.status # "pausado"

\* C5 witness: a login was denied for an account that the call moved to
\* paused and whose password is PwA.
C5_Witness ==
    /\ response = Answer("login", "denied")
    /\ LastActivity.details = <<"Usuario", "pausado">>
    /\ Account(DniA).status = "pausado"
    /\ datetime_now(now) - fromisoformat(Account(DniA).last_login) > 180 * SecondsPerDay
    /\ check_password(Account(DniA), PwA)

\* calendar days, on the server's calendar
Today == datetime_now(now) \div SecondsPerDay
DayOf(timestamp) == datetime_now(fromisoformat(timestamp)) \div SecondsPerDay

FailedOn(d, day) ==
    \E j \in 1..Len(activities) :
        /\ activities[j].user_dni = d
        /\ activities[j].action_type = "acceso"
        /\ activities[j].result = "fallido"
        /\ DayOf(activities[j].timestamp) = day

\* C6: an account that never logged in and has failed-login events on each
\* of today, today-1, ..., today-4 is flagged by the next authenticate,
\* which denies it; with one of those days missing the call does not flag
\* it.
C6_FlaggedAfterFiveDays ==
    \A i \in 1..Len(users) :
        LET u == users[i] IN
        u.last_login = NULL =>
            \A p \in LoginPasswords :
                LET o == login(users, activities, session, now, u.dni, p)
                    a == find_by_dni(o.users, u.dni)
                IN  IF \A k \in 0..4 : FailedOn(u.dni, Today - k)
                    THEN a.status = "alertado" /\ o.response.result = "denied"
                    ELSE u.status # "alertado" => a.status # "alertado"

\* C6 witness: a login was denied for an account that the call flagged.
C6_Witness ==
    /\ response = Answer("login", "denied")
    /\ LastActivity.details = <<"Usuario", "alertado">>
    /\ Account(DniA).status = "alertado"
    /\ Account(DniA).last_login = NULL
    /\ \A k \in 0..4 : FailedOn(DniA, Today - k)


\* C13: the audit log is append-only: every step leaves the rows the log
\* had, in their order and unmodified, as the older part of the log, so
\* its length never decreases.
C13_LogAppendOnly ==
    [][/\ Len(activities') >= Len(activities)
       /\ SubSeq(activities', 1, Len(activities)) = activities]_vars

\* C13 witness: the log holds a registration, and later events of the
\* account and of the administrator, the latest a change of status.
C13_Witness ==
    /\ Len(activities) >= 4
    /\ activities[1].action_type = "registro"
    /\ \E j \in 1..Len(activities) : activities[j].action_type = "acceso"
    /\ LastActivity.action_type = "cambio_estado"

\* C14: the status of every account is one of the six values.
C14_StatusInSet ==
    \A i \in 1..Len(users) : users[i].status \in Statuses

\* the accounts that are suspended after a request were suspended before it
NoneSuspendedBy(o) ==
    \A i \in 1..Len(o.users) :
        o.users[i].status = "suspendido" =>
            i <= Len(users) /\ users[i].status = "suspendido"

\* C15: no request other than a changeStatus to suspended makes an account
\* suspended: not register, authenticate, logout, changePassword, the
\* administrator's login, nor a changeStatus to another status.
C15_SuspendedOnlyByAdmin ==
    /\ \A d \in {DniA, Dni8} :
          NoneSuspendedBy(register(users, activities, session, now, d, PwA, PwA, "s1"))
    /\ \A d \in {DniA, ADMIN}, p \in {PwA, PwB} :
          NoneSuspendedBy(login(users, activities, session, now, d, p))
    /\ \A S \in {session, [user_dni |-> ADMIN, is_admin |-> TRUE]} :
          /\ NoneSuspendedBy(logout(users, activities, S, now))
          /\ NoneSuspendedBy(change_user_password(users, activities, S, now, DniA, PwB, "s2"))
          /\ \A s \in NewStatuses \ {"suspendido"} :
                NoneSuspendedBy(change_user_status(users, activities, S, now, DniA, s))
    /\ \A p \in {ADMIN_PASSWORD, PwWrong} :
          NoneSuspendedBy(admin_login(users, activities, session, now, p))

\* C15 witness: the administrator suspended an account that had logged
\* in before.
C15_Witness ==
    /\ response = Answer("change_status", "ok")
    /\ Account(DniA) # NULL
    /\ Account(DniA).status = "suspendido"
    /\ Account(DniA).last_login # NULL


\* C16: authenticate never moves to flagged an account whose last_login is
\* set: for such an account only the paused rule is evaluated, whatever
\* days its failed logins fell on.
C16_NeverFlaggedAfterLogin ==
    \A i \in 1..Len(users) :
        LET u == users[i] IN
        (u.last_login # NULL /\ u.status # "alertado") =>
            \A p \in LoginPasswords :
                LET o == login(users, activities, session, now, u.dni, p)
                IN  find_by_dni(o.users, u.dni).status # "alertado"

\* C16 witness: an account that logged in once has failed logins on each
\* of today, today-1, ..., today-4, its latest login was answered, and it
\* is not flagged.
C16_Witness ==
    /\ Account(DniA) # NULL
    /\ Account(DniA).last_login # NULL
    /\ \A k \in 0..4 : FailedOn(DniA, Today - k)
    /\ response.op = "login"
    /\ Account(DniA).status # "alertado"


\* the passwords given to changePassword: two that comply with the policy
\* and one breaking each rule of it
NewPasswords == {PwA, PwB, Pw7, Pw13, PwNoUpper, PwNoSpecial}

\* C17: changePassword with a password that breaks the policy, or for an
\* unknown identifier, fails and changes nothing; a successful one replaces
\* the password hash of that account and nothing else, and appends one
\* password_change event, after which authenticate on the account, if it
\* is not gated, succeeds with the new password and fails with every
\* other one, the old one included.
C17_ChangePassword ==
    \A S \in {session, [user_dni |-> ADMIN, is_admin |-> TRUE]},
       d \in {DniA, Dni8, ADMIN}, p \in NewPasswords, salt \in {"s2"} :
        LET o == change_user_password(users, activities, S, now, d, p, salt)
            hash == generate_password_hash(p, salt)
        IN  /\ (~PasswordOk(p) \/ find_by_dni(users, d) = NULL) =>
                  /\ o.response.result # "ok"
                  /\ o.users = users
                  /\ o.activities = activities
            /\ o.response.result = "ok" =>
                  /\ Len(o.users) = Len(users)
                  /\ \A i \in 1..Len(users) :
                        o.users[i] = IF users[i].dni = d
                                     THEN [users[i] EXCEPT !.password_hash = hash]
                                     ELSE users[i]
                  /\ Appended(activities, o.activities)
                  /\ o.activities[Len(o.activities)].action_type = "cambio_password"
                  /\ LET a == find_by_dni(o.users, d) IN
                     rule_status(o.activities, a, now) \notin GatedStatuses =>
                        \A q \in LoginPasswords \cup {p} :
                            login(o.users, o.activities, EmptySession, now, d, q).response.result
                                = IF q = p THEN "success" ELSE "wrong_password"

\* C17 witness: the password of an account registered with PwA was changed
\* to PwB, and the login that followed succeeded with PwB.
C17_Witness ==
    /\ response = Answer("login", "success")
    /\ session.user_dni = DniA
    /\ check_password(Account(DniA), PwB)
    /\ ~check_password(Account(DniA), PwA)
    /\ \E j \in 1..Len(activities) : activities[j].action_type = "cambio_password"


\* the log is one registration of d followed by wrong-password logins of d
RegisteredThenFailures(d) ==
    /\ activities # <<>>
    /\ activities[1].action_type = "registro"
    /\ activities[1].result = "exitoso"
    /\ \A j \in 1..Len(activities) : activities[j].user_dni = d
    /\ \A j \in 2..Len(activities) : WrongPassword(activities[j])

\* C18: a successful register appends exactly one registration/success
\* event and a refused one appends none; a login that finds the account
\* appends exactly one login event, a success, a failure for a wrong
\* password or a failure that names the gating status; a login for an
\* unknown identifier appends none and changes nothing; so after a register
\* and k wrong passwords the log is those k + 1 events and the counter is
\* k, the status still pristine up to the fourth.
C18_AuditAccounting ==
    /\ \A d \in {DniA, Dni8}, salt \in Salts :
          LET o == register(users, activities, session, now, d, PwA, PwA, salt) IN
          IF o.response.result = "ok"
          THEN /\ Appended(activities, o.activities)
               /\ LET r == o.activities[Len(o.activities)] IN
                  r.user_dni = d /\ r.action_type = "registro" /\ r.result = "exitoso"
          ELSE o.activities = activities
    /\ \A d \in {DniA, Dni8, ADMIN}, p \in LoginPasswords :
          LET o == login(users, activities, session, now, d, p) IN
          IF find_by_dni(users, d) = NULL
          THEN /\ o.response.result = "not_found"
               /\ o.users = users /\ o.activities = activities /\ o.session = session
          ELSE /\ Appended(activities, o.activities)
               /\ LET r == o.activities[Len(o.activities)]
                      a == find_by_dni(o.users, d)
                  IN  /\ r.user_dni = d /\ r.action_type = "acceso"
                      /\ \/ o.response.result = "success" /\ r.result = "exitoso"
                         \/ o.response.result = "wrong_password" /\ WrongPassword(r)
                         \/ /\ o.response.result = "denied"
                            /\ r.result = "fallido"
                            /\ a.status \in GatedStatuses
                            /\ r.details = <<"Usuario", a.status>>
    /\ RegisteredThenFailures(DniA) =>
          LET k == Len(activities) - 1 IN
          /\ k <= 5
          /\ Account(DniA).login_attempts = k
          /\ k <= 4 => Account(DniA).status = "inmaculado"

\* C18 witness: a register and five wrong passwords: six events and the
\* counter at 5.
C18_Witness ==
    /\ RegisteredThenFailures(DniA)
    /\ Len(activities) = 6
    /\ response = Answer("login", "wrong_password")
    /\ Account(DniA).login_attempts = 5


\* C20: an account whose status is active has last_login set.  Stated for
\* the accounts that register creates: the row of the administrator, which
\* init_db inserts as active with no last_login, is left aside.
C20_ActiveHasLoggedIn ==
    \A i \in 1..Len(users) :
        (users[i].dni # ADMIN /\ users[i].status = "activo") => users[i].last_login # NULL


\* C11: there is at most one account for an identifier, also when two
\* register calls for the same new identifier both pass the existence check
\* before either inserts; and a register of an identifier that exists
\* fails and leaves the accounts and the log as they are.
C11_OneAccountPerIdentifier ==
    /\ \A i, j \in 1..Len(users) : users[i].dni = users[j].dni => i = j
    /\ \A d \in {DniA, ADMIN}, p \in {PwA, PwB}, salt \in Salts :
          find_by_dni(users, d) # NULL =>
              LET o == register(users, activities, session, now, d, p, p, salt) IN
              /\ o.response.result # "ok"
              /\ o.users = users
              /\ o.activities = activities

\* C11 witness: two register calls for the same new identifier both went
\* past the existence check and both completed: two registration events,
\* one account.
C11_Witness ==
    /\ Busy = {}
    /\ Len(activities) = 2
    /\ \A j \in 1..2 : activities[j].action_type = "registro" /\ activities[j].user_dni = DniA
    /\ Cardinality({i \in 1..Len(users) : users[i].dni = DniA}) = 1

\* C12: no failed authenticate is lost to another one running at the same
\* time: once the requests have completed, an account whose log is its
\* registration followed by wrong-password logins has counted every one of
\* them.
C12_NoLostFailure ==
    (Busy = {} /\ RegisteredThenFailures(DniA)) =>
        Account(DniA).login_attempts = Len(activities) - 1

\* C19: an authenticate that has completed, a failure of the storage
\* included, has left no write of the account without its audit event.
C19_MutationAudited ==
    \A th \in Threads :
        (threads[th].pc = "idle" /\ response.op = "login") => ~threads[th].unaudited


\* C21: an account whose status is blocked, paused, flagged or suspended
\* stays in that set under register, authenticate and logout, now or after
\* any wait: no authenticate for it succeeds, whatever the password, and its
\* status after the call is still one of the four; register and logout
\* leave its row as it is.
C21_GatedClosed ==
    \A i \in 1..Len(users) :
        LET u == users[i] IN
        u.status \in GatedStatuses =>
            \A t \in {now, now + ShortStep, now + LongStep} :
                /\ \A p \in LoginPasswords :
                       LET o == login(users, activities, session, t, u.dni, p)
                       IN  /\ o.response.result # "success"
                           /\ find_by_dni(o.users, u.dni).status \in GatedStatuses
                /\ \A f \in RegisterForms :
                       find_by_dni(register(users, activities, session, t,
                                            u.dni, f[2], f[3], "s2").users, u.dni) = u
                /\ find_by_dni(logout(users, activities, session, t).users, u.dni) = u

\* C21 witness: the administrator flagged an account that never logged in,
\* and its next login, with the log holding no failure of it, was denied and
\* left it flagged.
C21_Witness ==
    /\ Len(activities) >= 3
    /\ activities[Len(activities) - 1].details = <<"Usuario", DniA, "->", "alertado">>
    /\ response = Answer("login", "denied")
    /\ LastActivity.details = <<"Usuario", "alertado">>
    /\ Account(DniA).status = "alertado"
    /\ Account(DniA).last_login = NULL
    /\ check_password(Account(DniA), PwA)


\* C22: while an account's last_login is more than 180 days old, whatever
\* status the administrator gives it (active, suspended, blocked, any other,
\* or none) and whether or not the administrator also changes its password,
\* every authenticate, now or later, is denied and leaves it paused; and
\* none of these calls changes last_login, so the account stays stale and
\* never authenticates successfully again.
C22_PausedOverrides ==
    \A i \in 1..Len(users) :
        LET u == users[i]
            admin == [user_dni |-> ADMIN, is_admin |-> TRUE]
        IN  (/\ u.last_login # NULL
             /\ datetime_now(now) - fromisoformat(u.last_login) > 180 * SecondsPerDay) =>
            \A s \in NewStatuses :
                LET c == change_user_status(users, activities, admin, now, u.dni, s)
                    k == change_user_password(c.users, c.activities, admin, now,
                                              u.dni, PwB, "s2")
                IN  /\ (s # u.status /\ u.dni # ADMIN) =>
                           find_by_dni(c.users, u.dni).status = s
                    /\ find_by_dni(k.users, u.dni).last_login = u.last_login
                    /\ \A x \in {c, k} : \A t \in {now, now + LongStep} :
                       \A p \in {PwA, PwB, PwWrong} :
                           LET o == login(x.users, x.activities, session, t, u.dni, p)
                               a == find_by_dni(o.users, u.dni)
                           IN  /\ o.response.result = "denied"
                               /\ a.status = "pausado"
                               /\ a.last_login = u.last_login

\* C22 witness: the administrator set a stale account to active, and its
\* next login was denied and left it paused.
C22_Witness ==
    /\ Len(activities) >= 2
    /\ activities[Len(activities) - 1].details = <<"Usuario", DniA, "->", "activo">>
    /\ response = Answer("login", "denied")
    /\ LastActivity.details = <<"Usuario", "pausado">>
    /\ Account(DniA).status = "pausado"
    /\ datetime_now(now) - fromisoformat(Account(DniA).last_login) > 180 * SecondsPerDay
    /\ check_password(Account(DniA), PwA)


\* what C23 says of a blocked account u with five or more failures counted,
\* once the administrator sets it to active: the counter is as it was; a
\* login at time t with a wrong password counts one more failure and blocks
\* it again, a login with its password succeeds and leaves it active with
\* the counter at 0.  Checked for the times t at which gated(v, A, t) does
\* not hold.
AfterUnblock(u, gated(_, _, _)) ==
    LET admin == [user_dni |-> ADMIN, is_admin |-> TRUE]
        c == change_user_status(users, activities, admin, now, u.dni, "activo")
        v == find_by_dni(c.users, u.dni)
    IN  /\ c.response.result = "ok"
        /\ v.status = "activo"
        /\ v.login_attempts = u.login_attempts
        /\ \A t \in {now, now + ShortStep, now + DayStep, now + LongStep} :
           ~gated(v, c.activities, t) =>
               \A p \in LoginPasswords :
                   LET o == login(c.users, c.activities, session, t, u.dni, p)
                       a == find_by_dni(o.users, u.dni)
                   IN  IF check_password(v, p)
                       THEN /\ o.response.result = "success"
                            /\ a.login_attempts = 0
                            /\ a.status = "activo"
                       ELSE /\ o.response.result = "wrong_password"
                            /\ a.login_attempts = u.login_attempts + 1
                            /\ a.status = "bloqueado"

RulesGate(v, A, t) == rule_status(A, v, t) \in BLOCKED_STATUSES
NothingGates(v, A, t) == FALSE

====
